---- MODULE Spec2Model ----
(***************************************************************************)
(* Ranking and day-partitioned route optimisation of the travel planner:   *)
(* rankCandidates and optimizeRoute of services/rankingEngine (the copy    *)
(* kept in src/services/storageService.ts, lines 196-419), called by       *)
(* generateItinerary of src/services/geminiService.ts.                     *)
(*                                                                         *)
(* Units.  Every point lies on one meridian, so the great-circle distance  *)
(* of two points is the difference of their latitudes; a latitude is       *)
(* written in km of arc.  A score is written in tenths (score 80.0 is      *)
(* 800).  A weight (km minus score/20) is written in 1/200 km, and a time  *)
(* in 1/6000 h, so that weight/30 hours is the weight itself.  A rating is  *)
(* written in tenths.  A date is a                                         *)
(* day number whose weekday is the date modulo 7 (0 = Sunday).  A missing  *)
(* (falsy) number or string is 0.                                          *)
(***************************************************************************)
EXTENDS Integers, Sequences, FiniteSets, TLC

\* ------------------------------------------------------------ bounds
MaxCands == 2
MaxDays == 2
MaxHotels == 2
MaxRank == 3
ScenarioCands == 3
MaxSpecials == 1
MaxPrefs == 2
MaxGathered == 3
MaxTripDays == 3
MaxReplyDays == 3

\* ------------------------------------------------- program constants
MAX_RADIUS == 30
WideRadius == 100
ComfortRadius == 30
LowBudgetPerDay == 3000
SmallPool == 10
AirportRadius == 20
NoDist == 999
Speed == 30
ScoreDiv == 20
KmUnit == ScoreDiv * 10
Hour == Speed * KmUnit
HalfHour == Hour \div 2
Overhead == (3 * Hour) \div 10
defaultDuration == Hour + HalfHour
DayStart == 9 * Hour
DayEnd == 20 * Hour
ArrivalBuffer == 2 * Hour + HalfHour
DepartureBuffer == 3 * Hour + HalfHour
TransitThreshold == 2 * Hour
Flex == HalfHour
DefaultArrival == 10 * Hour
DefaultDeparture == 18 * Hour

Max(a, b) == IF a >= b THEN a ELSE b
Min(a, b) == IF a <= b THEN a ELSE b
Abs(a) == IF a >= 0 THEN a ELSE 0 - a
Range(s) == {s[i] : i \in 1..Len(s)}

\* Array.prototype.find / findIndex: the first index whose element is one of
\* `passing`, 0 if none.
FindIndex(s, passing) ==
    IF \E i \in 1..Len(s) : s[i] \in passing
    THEN CHOOSE i \in 1..Len(s) : s[i] \in passing /\ \A j \in 1..(i - 1) : s[j] \notin passing
    ELSE 0

\* Array.prototype.filter: the elements that are in `passing`, in order.
Filter(s, passing) ==
    LET Keep(x) == x \in passing IN SelectSeq(s, Keep)

\* Array.prototype.splice(i, 1).
RemoveAt(s, i) == SubSeq(s, 1, i - 1) \o SubSeq(s, i + 1, Len(s))

\* calculateDistance on points of one meridian, km.
calculateDistance(lat1, lon1, lat2, lon2) == Abs(lat2 - lat1)

\* parseTime: "" is 9; "HH:MM" is h + m/60 (m is 0 or 30 here, exact in binary).
parseTime(timeStr) ==
    IF timeStr = <<>> THEN 9 * Hour
    ELSE timeStr[1] * Hour + (timeStr[2] * Hour) \div 60

\* ------------------------------------------------------------ state
VARIABLES
    heap,              \* object id -> CandidatePlace record (the caller's and the placeholders)
    candidates,        \* the caller's array: object ids
    hotels,            \* the lodging list
    startDate,         \* date of trip day 1
    totalDays,
    airportCoords,     \* [defined, lat, lng]
    flightTimes,       \* [defined, start, end]
    pc,                \* position in optimizeRoute
    dayNum,
    unvisited,         \* global unassigned pool: object ids
    todaysCandidates,  \* the day's pool: object ids
    activeHotel,       \* index into hotels, 0 when undefined
    currentTime,
    maxTime,
    currentLoc,        \* [lat, lng]
    spotsAdded,
    finalOrderedList,  \* the output: object ids
    callNo,            \* 1 in the first call, 2 in the repeated call
    firstResult,       \* the first call's returned entries, as returned
    focus,             \* prefs.style.focus
    budget,            \* prefs.budget.amount
    ranked,            \* the array rankCandidates returns: object ids
    stage,             \* position in generateItinerary
    hotelTasks,        \* one retrieval task per lodging: [state, result]
    days               \* data.days of the generated itinerary

vars == <<heap, candidates, hotels, startDate, totalDays, airportCoords, flightTimes,
          pc, dayNum, unvisited, todaysCandidates, activeHotel, currentTime, maxTime,
          currentLoc, spotsAdded, finalOrderedList, callNo, firstResult, focus, budget, ranked,
          stage, hotelTasks, days>>

\* generateItinerary's own stages: retrieval is over, and the planning reply not yet
\* there, when ranking and routing run.
retrieval == <<stage, hotelTasks, days>>

inputs == <<candidates, hotels, startDate, totalDays, airportCoords, flightTimes, focus, budget,
            ranked>>

\* ------------------------------------------------------ input domains
\* A point of the meridian at `lat` km; lat 0 is a missing coordinate.
Lng(lat) == IF lat = 0 THEN 0 ELSE 121

NoAirport == [defined |-> FALSE, lat |-> 0, lng |-> 0]
Airports == {NoAirport, [defined |-> TRUE, lat |-> 140, lng |-> Lng(140)]}

NoFlights == [defined |-> FALSE, start |-> <<>>, end |-> <<>>]
FlightTimes ==
    {NoFlights,
     [defined |-> TRUE, start |-> <<22, 0>>, end |-> <<23, 30>>],
     [defined |-> TRUE, start |-> <<6, 0>>, end |-> <<23, 30>>],
     [defined |-> TRUE, start |-> <<>>, end |-> <<13, 0>>]}

\* Trip day 1 is a Saturday (date 6) or a Sunday (date 7).
StartDates == {6, 7}

Hotel(ci, co, lat) ==
    [checkIn |-> ci, checkOut |-> co, latitude |-> lat, longitude |-> Lng(lat)]

\* Lodgings of the optimiser runs: with and without a resolved coordinate.
HotelKinds == {Hotel(6, 8, 10), Hotel(7, 9, 0)}

SeqsUpTo(S, n) == UNION {[1..k -> S] : k \in 0..n}

\* What the retrieval stage knows of a place: where it is, when it is closed,
\* how long a visit takes (0: not given).
PlaceKinds ==
    {[latitude |-> 12, closedDays |-> {}, durationHours |-> 0],
     [latitude |-> 14, closedDays |-> {0}, durationHours |-> 0],
     [latitude |-> 20, closedDays |-> {}, durationHours |-> 6 * Hour],
     [latitude |-> 150, closedDays |-> {}, durationHours |-> 0]}

Scores == {300, 800}
Names == <<"A", "B", "C", "D", "E", "F", "G", "H", "I", "J", "K">>

NoReason == <<>>

Candidate(nm, k, sc) ==
    [name |-> nm, category |-> "sightseeing", rating |-> 40, priceLevel |-> 2,
     latitude |-> k.latitude, longitude |-> Lng(k.latitude),
     closedDays |-> k.closedDays, durationHours |-> k.durationHours,
     score |-> sc, distanceFromHotel |-> 0, suggestedDay |-> 0,
     matchReason |-> NoReason]

\* The lists generateItinerary hands to optimizeRoute: names made unique by
\* deduplicateCandidates, order that of rankCandidates (score descending).
CandidateLists ==
    {[i \in 1..Len(ks) |-> Candidate(Names[i], ks[i], ss[i])] :
        <<ks, ss>> \in {p \in SeqsUpTo(PlaceKinds, MaxCands) \X SeqsUpTo(Scores, MaxCands) :
                          /\ Len(p[1]) = Len(p[2])
                          /\ \A i \in 1..(Len(p[2]) - 1) : p[2][i] >= p[2][i + 1]}}

\* The candidates of the worked scenarios: ScenarioCands places that are open every
\* day, a few km from the lodging, with no duration given.
ScenarioKinds ==
    {[latitude |-> 12, closedDays |-> {}, durationHours |-> 0],
     [latitude |-> 16, closedDays |-> {}, durationHours |-> 0]}

ScenarioLists ==
    {[i \in 1..ScenarioCands |-> Candidate(Names[i], ks[i], ss[i])] :
        <<ks, ss>> \in {p \in [1..ScenarioCands -> ScenarioKinds] \X [1..ScenarioCands -> Scores] :
                          \A i \in 1..(ScenarioCands - 1) : p[2][i] >= p[2][i + 1]}}

\* ------------------------------------------- lodging schedule resolver
\* Mutant: the check-out day counts as a night of the stay.
isDateInHotelStayInclusive(date, checkIn, checkOut) ==
    IF checkIn = 0 \/ checkOut = 0 THEN FALSE
    ELSE date >= checkIn /\ date <= checkOut

isDateInHotelStay(date, checkIn, checkOut) ==
    IF checkIn = 0 \/ checkOut = 0 THEN FALSE
    ELSE date >= checkIn /\ date < checkOut

\* The active lodging of `date`: an index of hs, 0 when hs is empty (undefined).
ActiveHotel(hs, date) ==
    LET InStay(h) == isDateInHotelStay(date, h.checkIn, h.checkOut)
        OutToday(h) == h.checkOut = date
        first == FindIndex(hs, {h \in Range(hs) : InStay(h)})
        second == FindIndex(hs, {h \in Range(hs) : OutToday(h)})
    IN  IF first # 0 THEN first
        ELSE IF second # 0 THEN second
        ELSE Len(hs)

\* ------------------------------------------------------- optimizeRoute
arrivalTime == IF flightTimes.defined THEN parseTime(flightTimes.start) ELSE DefaultArrival
departureTime == IF flightTimes.defined THEN parseTime(flightTimes.end) ELSE DefaultDeparture

CurrentDate(d) == startDate + (d - 1)
DayOfWeek(date) == date % 7

\* The day's operating window [start, end].
\* Mutant: the arrival of day 1 is not looked at.
DayWindowStartNoArrival(d) == DayStart

DayWindowStart(d) == IF d = 1 THEN Max(arrivalTime + ArrivalBuffer, DayStart) ELSE DayStart
\* Mutant: the departure cuts the end of every day.
DayWindowEndEveryDay(d) == Min(departureTime - DepartureBuffer, DayEnd)

DayWindowEnd(d) == IF d = totalDays THEN Min(departureTime - DepartureBuffer, DayEnd) ELSE DayEnd
IsTransitDay(d) == DayWindowEnd(d) - DayWindowStart(d) < TransitThreshold

HasCoord(o) == o.latitude # 0 /\ o.longitude # 0

\* The filter's distance of place p on day d with active lodging h, km.
GeoDist(p, h, d) ==
    LET dist == IF HasCoord(h) /\ HasCoord(p)
                THEN calculateDistance(h.latitude, h.longitude, p.latitude, p.longitude)
                ELSE NoDist
        nearAirport == /\ d = 1
                       /\ airportCoords.defined
                       /\ HasCoord(p)
                       /\ calculateDistance(airportCoords.lat, airportCoords.lng,
                                            p.latitude, p.longitude) < AirportRadius
    IN  IF nearAirport
        THEN calculateDistance(airportCoords.lat, airportCoords.lng, p.latitude, p.longitude)
        ELSE dist

\* Mutant: the radius is the widened one whatever the pool.
EffectiveRadiusAlwaysWide(pool) == WideRadius

EffectiveRadius(pool) == IF Len(pool) < SmallPool THEN WideRadius ELSE MAX_RADIUS

\* Mutant: the weekday taken 1-based.
IsClosedOneBased(p, dow) == (dow + 1) \in p.closedDays

IsClosed(p, dow) == dow \in p.closedDays

\* Mutant: a place that carries a day already is passed over.
AdmitsUnassigned(p, h, d, pool) ==
    /\ p.suggestedDay = 0
    /\ ~IsClosed(p, DayOfWeek(CurrentDate(d)))
    /\ GeoDist(p, h, d) <= EffectiveRadius(pool)

\* Whether the day's filter keeps place p.
Admits(p, h, d, pool) ==
    /\ ~IsClosed(p, DayOfWeek(CurrentDate(d)))
    /\ GeoDist(p, h, d) <= EffectiveRadius(pool)

\* weight = d - score/20, in 1/200 km.
Weight(loc, p) ==
    KmUnit * calculateDistance(loc.lat, loc.lng, p.latitude, p.longitude) - p.score

\* Mutant: the scan takes the place nearest to loc, whatever its score.
BestIdxNearest(pool, loc) ==
    LET D(i) == calculateDistance(loc.lat, loc.lng, heap[pool[i]].latitude, heap[pool[i]].longitude)
    IN  CHOOSE i \in 1..Len(pool) :
            /\ \A j \in 1..Len(pool) : D(i) <= D(j)
            /\ \A j \in 1..(i - 1) : D(j) > D(i)

\* Mutant: of the places of least weight the scan keeps the last.
BestIdxLastOfEqual(pool, loc) ==
    CHOOSE i \in 1..Len(pool) :
        /\ \A j \in 1..Len(pool) : Weight(loc, heap[pool[i]]) <= Weight(loc, heap[pool[j]])
        /\ \A j \in (i + 1)..Len(pool) : Weight(loc, heap[pool[j]]) > Weight(loc, heap[pool[i]])

\* The greedy scan: the first index of the pool with the least weight.
BestIdx(pool, loc) ==
    CHOOSE i \in 1..Len(pool) :
        /\ \A j \in 1..Len(pool) : Weight(loc, heap[pool[i]]) <= Weight(loc, heap[pool[j]])
        /\ \A j \in 1..(i - 1) : Weight(loc, heap[pool[j]]) > Weight(loc, heap[pool[i]])

\* travelTime = minDist / 30 + 0.3, where minDist is the least weight.
TravelTime(minDist) == minDist + Overhead
Duration(p) == IF p.durationHours # 0 THEN p.durationHours ELSE defaultDuration

Placeholder(nm, lat, lng, d, reason, dur) ==
    [name |-> nm, category |-> "other", rating |-> 0, priceLevel |-> 0,
     latitude |-> lat, longitude |-> lng,
     closedDays |-> {}, durationHours |-> dur, score |-> 0, distanceFromHotel |-> 0,
     suggestedDay |-> d, matchReason |-> reason]

IsPlaceholderId(id) == id > Len(candidates)

\* The locals of one loop iteration, out of scope between days.
NoLoc == [lat |-> 0, lng |-> 0]
DayLocalsCleared ==
    /\ todaysCandidates' = <<>>
    /\ activeHotel' = 0
    /\ currentTime' = 0
    /\ maxTime' = 0
    /\ currentLoc' = NoLoc
    /\ spotsAdded' = 0

InitCall ==
    /\ pc = "start"
    /\ dayNum = 0
    /\ unvisited = <<>>
    /\ todaysCandidates = <<>>
    /\ activeHotel = 0
    /\ currentTime = 0
    /\ maxTime = 0
    /\ currentLoc = NoLoc
    /\ spotsAdded = 0
    /\ finalOrderedList = <<>>
    /\ callNo = 1
    /\ firstResult = <<>>
    /\ stage = "stage2"
    /\ hotelTasks = <<>>
    /\ days = <<>>

Init ==
    /\ heap \in CandidateLists \cup ScenarioLists
    /\ candidates = [i \in 1..Len(heap) |-> i]
    /\ hotels \in SeqsUpTo(HotelKinds, MaxHotels)
    /\ startDate \in StartDates
    /\ totalDays \in 0..MaxDays
    /\ airportCoords \in Airports
    /\ flightTimes \in FlightTimes
    /\ focus = "balanced"
    /\ budget = 20000
    /\ ranked = candidates
    /\ InitCall

\* Entry of optimizeRoute up to the loop head: no argument is validated.
Start ==
    /\ pc = "start"
    /\ finalOrderedList' = <<>>
    /\ unvisited' = candidates
    /\ dayNum' = 1
    /\ pc' = "loop"
    /\ UNCHANGED <<heap, inputs, todaysCandidates, activeHotel, currentTime, maxTime,
                   currentLoc, spotsAdded, callNo, firstResult, retrieval>>

\* Mutant: a day without time is skipped with nothing pushed.
TransitDaySkipped ==
    /\ pc = "loop"
    /\ dayNum <= totalDays
    /\ IsTransitDay(dayNum)
    /\ dayNum' = dayNum + 1
    /\ DayLocalsCleared
    /\ UNCHANGED <<heap, inputs, pc, unvisited, finalOrderedList, callNo, firstResult, retrieval>>

\* A day whose window is under the threshold: one placeholder, then the next day.
TransitDay ==
    /\ pc = "loop"
    /\ dayNum <= totalDays
    /\ IsTransitDay(dayNum)
    /\ heap' = Append(heap,
                 Placeholder(IF dayNum = 1 THEN "arrival" ELSE "departure",
                             airportCoords.lat, airportCoords.lng, dayNum, <<"transit">>, 0))
    /\ finalOrderedList' = Append(finalOrderedList, Len(heap) + 1)
    /\ dayNum' = dayNum + 1
    /\ DayLocalsCleared
    /\ UNCHANGED <<inputs, pc, unvisited, callNo, firstResult, retrieval>>

\* activeHotel is undefined (empty lodging list): reading its latitude throws.
NoHotelError ==
    /\ pc = "loop"
    /\ dayNum <= totalDays
    /\ ~IsTransitDay(dayNum)
    /\ ActiveHotel(hotels, CurrentDate(dayNum)) = 0
    /\ pc' = "threw"
    /\ UNCHANGED <<heap, inputs, dayNum, unvisited, todaysCandidates, activeHotel,
                   currentTime, maxTime, currentLoc, spotsAdded, finalOrderedList,
                   callNo, firstResult, retrieval>>

\* Context and filter of a day with time to visit.
BeginDay ==
    /\ pc = "loop"
    /\ dayNum <= totalDays
    /\ ~IsTransitDay(dayNum)
    /\ ActiveHotel(hotels, CurrentDate(dayNum)) # 0
    /\ LET a == ActiveHotel(hotels, CurrentDate(dayNum))
           h == hotels[a]
           dow == DayOfWeek(CurrentDate(dayNum))
           kept == {id \in Range(unvisited) : Admits(heap[id], h, dayNum, unvisited)}
       IN  /\ activeHotel' = a
           /\ currentTime' = DayWindowStart(dayNum)
           /\ maxTime' = DayWindowEnd(dayNum)
           /\ currentLoc' = IF dayNum = 1 /\ airportCoords.defined /\ airportCoords.lat # 0
                            THEN [lat |-> airportCoords.lat, lng |-> airportCoords.lng]
                            ELSE [lat |-> h.latitude, lng |-> h.longitude]
           /\ todaysCandidates' = Filter(unvisited, kept)
           /\ heap' = [id \in DOMAIN heap |->
                         IF id \in Range(unvisited) /\ ~IsClosed(heap[id], dow)
                         THEN [heap[id] EXCEPT !.distanceFromHotel = GeoDist(heap[id], h, dayNum)]
                         ELSE heap[id]]
    /\ spotsAdded' = 0
    /\ pc' = "greedy"
    /\ UNCHANGED <<inputs, dayNum, unvisited, finalOrderedList, callNo, firstResult, retrieval>>

LoopRuns == currentTime < maxTime /\ todaysCandidates # <<>>

\* Mutant: the visit's duration is left out of the time check.
OverflowsWithoutVisit(chosen, minDist) ==
    currentTime + TravelTime(minDist) > maxTime + Flex

Overflows(chosen, minDist) ==
    currentTime + TravelTime(minDist) + Duration(chosen) > maxTime + Flex

\* Mutant: a place that does not fit is dropped from the global pool as well.
RejectCandidateEverywhere ==
    /\ pc = "greedy"
    /\ LoopRuns
    /\ LET bestIdx == BestIdx(todaysCandidates, currentLoc)
           chosen == heap[todaysCandidates[bestIdx]]
       IN  /\ Overflows(chosen, Weight(currentLoc, chosen))
           /\ todaysCandidates' = RemoveAt(todaysCandidates, bestIdx)
           /\ unvisited' = Filter(unvisited, Range(unvisited) \ {todaysCandidates[bestIdx]})
    /\ UNCHANGED <<heap, inputs, pc, dayNum, activeHotel, currentTime, maxTime,
                   currentLoc, spotsAdded, finalOrderedList, callNo, firstResult, retrieval>>

\* Mutant: a place that does not fit stays in the day's pool.
RejectCandidateKept ==
    /\ pc = "greedy"
    /\ LoopRuns
    /\ LET bestIdx == BestIdx(todaysCandidates, currentLoc)
           chosen == heap[todaysCandidates[bestIdx]]
       IN  Overflows(chosen, Weight(currentLoc, chosen))
    /\ UNCHANGED vars

\* The best candidate does not fit: it leaves the day's pool only.
RejectCandidate ==
    /\ pc = "greedy"
    /\ LoopRuns
    /\ LET bestIdx == BestIdx(todaysCandidates, currentLoc)
           chosen == heap[todaysCandidates[bestIdx]]
       IN  /\ Overflows(chosen, Weight(currentLoc, chosen))
           /\ todaysCandidates' = RemoveAt(todaysCandidates, bestIdx)
    /\ UNCHANGED <<heap, inputs, pc, dayNum, unvisited, activeHotel, currentTime, maxTime,
                   currentLoc, spotsAdded, finalOrderedList, callNo, firstResult, retrieval>>

Origin == IF spotsAdded = 0 THEN (IF dayNum = 1 THEN "airport/hotel" ELSE "hotel")
          ELSE "previous"

\* Mutant: the committed record stays in the pool.
RemoveNothing(pool, chosen) == pool

\* The pool after the commit of `chosen`: the first record of its name is spliced out.
RemoveByName(pool, chosen) ==
    LET gIdx == FindIndex(pool, {id \in Range(pool) : heap[id].name = chosen.name})
    IN  IF gIdx # 0 THEN RemoveAt(pool, gIdx) ELSE pool

\* Mutant: the committed place is put at the head of the output.
CommitCandidateAtFront ==
    /\ pc = "greedy"
    /\ LoopRuns
    /\ LET bestIdx == BestIdx(todaysCandidates, currentLoc)
           id == todaysCandidates[bestIdx]
           chosen == heap[id]
           minDist == Weight(currentLoc, chosen)
       IN  /\ ~Overflows(chosen, minDist)
           /\ heap' = [heap EXCEPT ![id].suggestedDay = dayNum,
                                   ![id].matchReason = <<dayNum, Origin>>]
           /\ finalOrderedList' = <<id>> \o finalOrderedList
           /\ currentTime' = currentTime + TravelTime(minDist) + Duration(chosen)
           /\ currentLoc' = [lat |-> chosen.latitude, lng |-> chosen.longitude]
           /\ spotsAdded' = spotsAdded + 1
           /\ unvisited' = RemoveByName(unvisited, chosen)
           /\ todaysCandidates' = RemoveAt(todaysCandidates, bestIdx)
    /\ UNCHANGED <<inputs, pc, dayNum, activeHotel, maxTime, callNo, firstResult, retrieval>>

\* The best candidate fits: it is committed to the day.
CommitCandidate ==
    /\ pc = "greedy"
    /\ LoopRuns
    /\ LET bestIdx == BestIdx(todaysCandidates, currentLoc)
           id == todaysCandidates[bestIdx]
           chosen == heap[id]
           minDist == Weight(currentLoc, chosen)
       IN  /\ ~Overflows(chosen, minDist)
           /\ heap' = [heap EXCEPT ![id].suggestedDay = dayNum,
                                   ![id].matchReason = <<dayNum, Origin>>]
           /\ finalOrderedList' = Append(finalOrderedList, id)
           /\ currentTime' = currentTime + TravelTime(minDist) + Duration(chosen)
           /\ currentLoc' = [lat |-> chosen.latitude, lng |-> chosen.longitude]
           /\ spotsAdded' = spotsAdded + 1
           /\ unvisited' = RemoveByName(unvisited, chosen)
           /\ todaysCandidates' = RemoveAt(todaysCandidates, bestIdx)
    /\ UNCHANGED <<inputs, pc, dayNum, activeHotel, maxTime, callNo, firstResult, retrieval>>

\* Mutant: the placeholder is pushed whatever was committed.
BackfillUnguarded ==
    /\ pc = "greedy"
    /\ ~LoopRuns
    /\ heap' = Append(heap,
                 Placeholder("free exploration", hotels[activeHotel].latitude,
                             hotels[activeHotel].longitude, dayNum, <<"flexible">>, 2 * Hour))
    /\ finalOrderedList' = Append(finalOrderedList, Len(heap) + 1)
    /\ dayNum' = dayNum + 1
    /\ pc' = "loop"
    /\ DayLocalsCleared
    /\ UNCHANGED <<inputs, unvisited, callNo, firstResult, retrieval>>

\* The loop is left with nothing committed: the day gets the free-exploration placeholder.
Backfill ==
    /\ pc = "greedy"
    /\ ~LoopRuns
    /\ spotsAdded = 0
    /\ heap' = Append(heap,
                 Placeholder("free exploration", hotels[activeHotel].latitude,
                             hotels[activeHotel].longitude, dayNum, <<"flexible">>, 2 * Hour))
    /\ finalOrderedList' = Append(finalOrderedList, Len(heap) + 1)
    /\ dayNum' = dayNum + 1
    /\ pc' = "loop"
    /\ DayLocalsCleared
    /\ UNCHANGED <<inputs, unvisited, callNo, firstResult, retrieval>>

\* The loop is left with something committed.
EndDay ==
    /\ pc = "greedy"
    /\ ~LoopRuns
    /\ spotsAdded > 0
    /\ dayNum' = dayNum + 1
    /\ pc' = "loop"
    /\ DayLocalsCleared
    /\ UNCHANGED <<heap, inputs, unvisited, finalOrderedList, callNo, firstResult, retrieval>>

\* After the last day: return finalOrderedList.
Return ==
    /\ pc = "loop"
    /\ dayNum > totalDays
    /\ pc' = "done"
    /\ UNCHANGED <<heap, inputs, dayNum, unvisited, todaysCandidates, activeHotel,
                   currentTime, maxTime, currentLoc, spotsAdded, finalOrderedList,
                   callNo, firstResult, retrieval>>

Next ==
    \/ Start
    \/ TransitDay
    \/ NoHotelError
    \/ BeginDay
    \/ RejectCandidate
    \/ CommitCandidate
    \/ Backfill
    \/ EndDay
    \/ Return

Spec == Init /\ [][Next]_vars

\* The call runs on: a step that can be taken is taken.
SpecFair == Init /\ [][Next]_vars /\ WF_vars(Next)

\* ------------------------------------------- optimizeRoute called again
\* What a caller reads of a returned list: which record each entry is (0 for a
\* placeholder, a fresh object of each call) and the record's fields.
ResultView ==
    [i \in 1..Len(finalOrderedList) |->
        [id |-> IF IsPlaceholderId(finalOrderedList[i]) THEN 0 ELSE finalOrderedList[i],
         entry |-> heap[finalOrderedList[i]]]]

\* The caller keeps the first result and calls optimizeRoute again with the same
\* arguments: the same array of the same records, as the first call left them.
CallAgain ==
    /\ pc = "done"
    /\ callNo = 1
    /\ firstResult' = ResultView
    /\ callNo' = 2
    /\ pc' = "start"
    /\ dayNum' = 0
    /\ unvisited' = <<>>
    /\ finalOrderedList' = <<>>
    /\ UNCHANGED <<heap, inputs, todaysCandidates, activeHotel, currentTime, maxTime,
                   currentLoc, spotsAdded, retrieval>>

InitTwice ==
    /\ Init
    /\ startDate = 7
    /\ flightTimes.start = <<>>

NextTwice ==
    \/ Next
    \/ CallAgain

SpecTwice == InitTwice /\ [][NextTwice]_vars

\* ------------------------------------- the lodging of a day, on its own
\* Stays of the resolver runs: every interval within dates 1..5, and a stay with
\* a missing check-in or check-out string.
StayKinds ==
    {Hotel(ci, co, 10) : <<ci, co>> \in {d \in (1..4) \X (2..5) : d[1] < d[2]}}
        \cup {Hotel(0, 3, 10), Hotel(2, 0, 10)}

InitResolve ==
    /\ heap = <<>>
    /\ candidates = <<>>
    /\ hotels \in SeqsUpTo(StayKinds, MaxHotels) \ {<<>>}
    /\ startDate = 1
    /\ totalDays = 4
    /\ airportCoords = NoAirport
    /\ flightTimes = NoFlights
    /\ focus = "balanced"
    /\ budget = 20000
    /\ ranked = <<>>
    /\ pc = "loop"
    /\ dayNum \in 1..4
    /\ unvisited = <<>>
    /\ todaysCandidates = <<>>
    /\ activeHotel = 0
    /\ currentTime = 0
    /\ maxTime = 0
    /\ currentLoc = NoLoc
    /\ spotsAdded = 0
    /\ finalOrderedList = <<>>
    /\ callNo = 1
    /\ firstResult = <<>>
    /\ stage = "stage2"
    /\ hotelTasks = <<>>
    /\ days = <<>>

\* The head of a loop iteration: currentDate and activeHotel of day dayNum.
ResolveLodging ==
    /\ pc = "loop"
    /\ activeHotel' = ActiveHotel(hotels, CurrentDate(dayNum))
    /\ pc' = "resolved"
    /\ UNCHANGED <<heap, inputs, dayNum, unvisited, todaysCandidates, currentTime, maxTime,
                   currentLoc, spotsAdded, finalOrderedList, callNo, firstResult, retrieval>>

NextResolve == ResolveLodging

SpecResolve == InitResolve /\ [][NextResolve]_vars

\* ------------------------------------ optimizeRoute with a large pool
\* Lists of SmallPool - 1 or SmallPool places: long visits 10 km from the lodging,
\* of which at most MaxSpecials are instead a short visit 2 km, 40 km or 140 km
\* from it (the last one 10 km from the airport).
CrowdKinds ==
    {[latitude |-> 12, closedDays |-> {}, durationHours |-> 0],
     [latitude |-> 50, closedDays |-> {}, durationHours |-> 0],
     [latitude |-> 150, closedDays |-> {}, durationHours |-> 0]}

CrowdBase == [latitude |-> 20, closedDays |-> {}, durationHours |-> 6 * Hour]

CrowdLists ==
    {[i \in 1..n |-> Candidate(Names[i],
                               IF i \in DOMAIN sp THEN sp[i] ELSE CrowdBase,
                               IF 2 * i <= n THEN 800 ELSE 300)] :
        <<n, sp>> \in {q \in {SmallPool - 1, SmallPool}
                              \X UNION {[F -> CrowdKinds] :
                                           F \in {G \in SUBSET (1..SmallPool) :
                                                     Cardinality(G) <= MaxSpecials}} :
                         DOMAIN q[2] \subseteq 1..q[1]}}

InitCrowd ==
    /\ heap \in CrowdLists
    /\ candidates = [i \in 1..Len(heap) |-> i]
    /\ hotels \in {<<>>, <<Hotel(6, 8, 10)>>, <<Hotel(6, 7, 10), Hotel(7, 9, 0)>>}
    /\ startDate = 6
    /\ totalDays \in 1..2
    /\ airportCoords \in Airports
    /\ flightTimes \in FlightTimes \ {[defined |-> TRUE, start |-> <<>>, end |-> <<13, 0>>]}
    /\ focus = "balanced"
    /\ budget = 20000
    /\ ranked = candidates
    /\ InitCall

SpecCrowd == InitCrowd /\ [][Next]_vars

\* ------------------------------- the operating window of a day, on its own
MaxWindowDays == 3

\* Clock strings of the window runs: none, or an hour with 00 or 30 minutes.
ClockStrings == {<<>>} \cup ({0, 6, 10, 13, 16, 17, 18, 22} \X {0, 30})

WindowFlights ==
    {NoFlights} \cup {[defined |-> TRUE, start |-> a, end |-> b] : a, b \in ClockStrings}

InitWindow ==
    /\ heap = <<>>
    /\ candidates = <<>>
    /\ hotels = <<>>
    /\ startDate = 6
    /\ totalDays \in 1..MaxWindowDays
    /\ airportCoords = NoAirport
    /\ flightTimes \in WindowFlights
    /\ focus = "balanced"
    /\ budget = 20000
    /\ ranked = <<>>
    /\ pc = "loop"
    /\ dayNum \in 1..totalDays
    /\ unvisited = <<>>
    /\ todaysCandidates = <<>>
    /\ activeHotel = 0
    /\ currentTime = 0
    /\ maxTime = 0
    /\ currentLoc = NoLoc
    /\ spotsAdded = 0
    /\ finalOrderedList = <<>>
    /\ callNo = 1
    /\ firstResult = <<>>
    /\ stage = "stage2"
    /\ hotelTasks = <<>>
    /\ days = <<>>

\* currentTime, maxTime and availableHours of day dayNum: a day with time to visit.
OpenWindow ==
    /\ pc = "loop"
    /\ ~IsTransitDay(dayNum)
    /\ currentTime' = DayWindowStart(dayNum)
    /\ maxTime' = DayWindowEnd(dayNum)
    /\ pc' = "window"
    /\ UNCHANGED <<heap, inputs, dayNum, unvisited, todaysCandidates, activeHotel, currentLoc,
                   spotsAdded, finalOrderedList, callNo, firstResult, retrieval>>

\* The same of a day with availableHours < 2.0: the travel-day branch is taken.
ShortWindow ==
    /\ pc = "loop"
    /\ IsTransitDay(dayNum)
    /\ currentTime' = DayWindowStart(dayNum)
    /\ maxTime' = DayWindowEnd(dayNum)
    /\ pc' = "transit"
    /\ UNCHANGED <<heap, inputs, dayNum, unvisited, todaysCandidates, activeHotel, currentLoc,
                   spotsAdded, finalOrderedList, callNo, firstResult, retrieval>>

NextWindow ==
    \/ OpenWindow
    \/ ShortWindow

SpecWindow == InitWindow /\ [][NextWindow]_vars

\* ------------------------------------------------------ rankCandidates
\* x / 3 rounded to the nearest integer (toFixed), x >= 0.
RoundThird(x) == (2 * x + 3) \div 6

\* matchScore of a place of category cat.
MatchScore(cat) ==
    IF focus = "balanced" THEN 80
    ELSE IF focus = cat THEN 100
    ELSE IF cat = "sightseeing" THEN 70
    ELSE 50

\* The hotels a distance to place p can be computed for.
Measurable(p, hs) == {i \in 1..Len(hs) : HasCoord(hs[i]) /\ HasCoord(p)}

\* Mutant: the distance to the first lodging that has a coordinate.
MinDistanceFirstLodging(p, hs) ==
    LET i == CHOOSE k \in Measurable(p, hs) : \A j \in Measurable(p, hs) : k <= j
    IN  calculateDistance(hs[i].latitude, hs[i].longitude, p.latitude, p.longitude)

\* minDistance of place p; only used when Measurable(p, hs) is not empty.
MinDistance(p, hs) ==
    LET D(i) == calculateDistance(hs[i].latitude, hs[i].longitude, p.latitude, p.longitude)
    IN  D(CHOOSE i \in Measurable(p, hs) : \A j \in Measurable(p, hs) : D(i) <= D(j))

\* place.score in tenths: 0.3 * rating term + 0.4 * match term + proximity term.
Score(p, hs) ==
    LET rating == IF p.rating # 0 THEN p.rating ELSE 40
        base == 6 * rating + 4 * MatchScore(p.category)
    IN  IF Measurable(p, hs) = {} THEN base - 500
        ELSE IF MinDistance(p, hs) > WideRadius THEN base - 2000
        ELSE base + RoundThird(Max(0, 600 - 20 * MinDistance(p, hs)))

\* Mutant: an element is put before the elements of equal score.
InsertByScoreBeforeEqual(t, x, sc) ==
    LET ahead == {i \in 1..Len(t) : sc[t[i]] > sc[x]}
        k == Cardinality(ahead)
    IN  SubSeq(t, 1, k) \o <<x>> \o SubSeq(t, k + 1, Len(t))

\* One step of the sort: x goes behind every element whose score is not lower.
InsertByScore(t, x, sc) ==
    LET ahead == {i \in 1..Len(t) : sc[t[i]] >= sc[x]}
        k == Cardinality(ahead)
    IN  SubSeq(t, 1, k) \o <<x>> \o SubSeq(t, k + 1, Len(t))

\* sort((a, b) => (b.score || 0) - (a.score || 0)): descending and stable.
RECURSIVE SortByScore(_, _)
SortByScore(s, sc) ==
    IF s = <<>> THEN <<>>
    ELSE InsertByScore(SortByScore(SubSeq(s, 1, Len(s) - 1), sc), s[Len(s)], sc)

\* Places as retrieved: rating (0: missing), category, coordinate.
RawPlaces ==
    {[name |-> "", category |-> c, rating |-> r, priceLevel |-> 2,
      latitude |-> lat, longitude |-> Lng(lat),
      closedDays |-> {}, durationHours |-> 0, score |-> 0, distanceFromHotel |-> 0,
      suggestedDay |-> 0, matchReason |-> NoReason] :
        c \in {"sightseeing", "food"}, r \in {0, 45}, lat \in {12, 150}}

RawLists ==
    {[i \in 1..Len(l) |-> [l[i] EXCEPT !.name = Names[i]]] : l \in SeqsUpTo(RawPlaces, MaxRank)}

\* Lodging lists of the ranking runs: none; one without and one with a coordinate;
\* two with coordinates, the nearer one first or second according to the place.
RankHotelLists ==
    {<<>>,
     <<Hotel(6, 7, 0), Hotel(7, 8, 10)>>,
     <<Hotel(6, 7, 10), Hotel(7, 8, 100)>>}

\* prefs.style.focus and the categories a place can have besides "other".
Focuses == {"sightseeing", "shopping", "food", "culture", "balanced"}
Categories == {"sightseeing", "shopping", "food", "culture"}

\* Places that differ in what the preferences weigh: category and priceLevel at one
\* coordinate, and one kind of place at no coordinate and at 0, 15 and 60 km from
\* the lodging at latitude 10.
PrefPlaces ==
    {[name |-> "", category |-> c, rating |-> 45, priceLevel |-> pl,
      latitude |-> lat, longitude |-> Lng(lat),
      closedDays |-> {}, durationHours |-> 0, score |-> 0, distanceFromHotel |-> 0,
      suggestedDay |-> 0, matchReason |-> NoReason] :
        c \in Categories, pl \in {1, 3}, lat \in {0, 10, 25, 70}}

PrefKinds ==
    {p \in PrefPlaces : p.latitude = 25 \/ (p.category = "sightseeing" /\ p.priceLevel = 1)}

PrefLists ==
    {[i \in 1..Len(l) |-> [l[i] EXCEPT !.name = Names[i]]] :
        l \in SeqsUpTo(PrefKinds, MaxPrefs) \ {<<>>}}

\* prefs.budget.amount for a trip of two days: 1000 or 10000 a day.
Budgets == {2000, 20000}

InitRank ==
    /\ \/ /\ heap \in RawLists
          /\ focus \in {"balanced", "food"}
          /\ budget = 20000
       \/ /\ heap \in PrefLists
          /\ focus \in Focuses
          /\ budget \in Budgets
    /\ candidates = [i \in 1..Len(heap) |-> i]
    /\ hotels \in RankHotelLists
    /\ ranked = <<>>
    /\ startDate = 6
    /\ totalDays = 2
    /\ airportCoords = NoAirport
    /\ flightTimes = NoFlights
    /\ InitCall

\* rankCandidates(candidates, prefs, hotels): every place is scored in place, the
\* mapped array is sorted.
Rank ==
    /\ pc = "start"
    /\ ranked = <<>>
    /\ heap' = [id \in DOMAIN heap |->
                  [heap[id] EXCEPT
                     !.score = Score(heap[id], hotels),
                     !.distanceFromHotel = IF Measurable(heap[id], hotels) # {}
                                           THEN MinDistance(heap[id], hotels) ELSE @]]
    /\ ranked' = SortByScore(candidates, [id \in DOMAIN heap |-> heap'[id].score])
    /\ pc' = "ranked"
    /\ UNCHANGED <<candidates, hotels, startDate, totalDays, airportCoords, flightTimes,
                   focus, budget, dayNum, unvisited, todaysCandidates, activeHotel, currentTime,
                   maxTime, currentLoc, spotsAdded, finalOrderedList, callNo, firstResult, retrieval>>

NextRank == Rank

SpecRank == InitRank /\ [][NextRank]_vars

\* ------------------------------------- generateItinerary, stages 1 and 2
TopCandidates == 60

\* name.toLowerCase().trim() of the names the responses carry.
NameKey(nm) ==
    CASE nm = "A" -> "a"
      [] nm = " a" -> "a"
      [] nm = "B" -> "b"
      [] OTHER -> nm

\* Mutant: every record of the responses is kept.
KeepAllCandidates(cs) == cs

\* deduplicateCandidates: a record without a name, or whose key was seen, is dropped.
RECURSIVE deduplicateCandidates(_)
deduplicateCandidates(cs) ==
    IF cs = <<>> THEN <<>>
    ELSE LET kept == deduplicateCandidates(SubSeq(cs, 1, Len(cs) - 1))
             c == cs[Len(cs)]
         IN  IF c.name = "" \/ \E k \in 1..Len(kept) : NameKey(kept[k].name) = NameKey(c.name)
             THEN kept
             ELSE Append(kept, c)

\* results.flat(): the tasks' arrays, in task order.
RECURSIVE Flat(_)
Flat(ts) ==
    IF ts = <<>> THEN <<>>
    ELSE Flat(SubSeq(ts, 1, Len(ts) - 1)) \o ts[Len(ts)].result

\* A place of a response.
Found(nm, lat) ==
    [name |-> nm, category |-> "sightseeing", rating |-> 45, priceLevel |-> 2,
     latitude |-> lat, longitude |-> Lng(lat), closedDays |-> {}, durationHours |-> 0, score |-> 0,
     distanceFromHotel |-> 0, suggestedDay |-> 0, matchReason |-> NoReason]

\* What a response can carry: hotelCoords or none, and json.candidates.
ResponseCoords == {0, 10}
ResponseCandidates ==
    {<<>>,
     <<Found("A", 12)>>,
     <<Found(" a", 12), Found("B", 150)>>,
     <<Found("", 12)>>}

\* Mutant: the results are gathered as soon as one task has settled.
AnySettled == hotelTasks = <<>> \/ \E i \in 1..Len(hotelTasks) : hotelTasks[i].state = "settled"

\* Promise.all(hotelTasks) is fulfilled: every task has settled (no task rejects).
AllSettled == \A i \in 1..Len(hotelTasks) : hotelTasks[i].state = "settled"

\* At `await Promise.all(hotelTasks)`: map has run every task up to its request.
InitGenerate ==
    /\ stage = "stage1"
    /\ hotels \in SeqsUpTo({Hotel(6, 8, 0)}, MaxHotels)
    /\ hotelTasks = [i \in 1..Len(hotels) |-> [state |-> "waiting", result |-> <<>>]]
    /\ days = <<>>
    /\ heap = <<>>
    /\ candidates = <<>>
    /\ startDate = 6
    /\ totalDays = 2
    /\ airportCoords = NoAirport
    /\ flightTimes \in FlightTimes \ {NoFlights}
    /\ focus = "balanced"
    /\ budget = 20000
    /\ ranked = <<>>
    /\ pc = "start"
    /\ dayNum = 0
    /\ unvisited = <<>>
    /\ todaysCandidates = <<>>
    /\ activeHotel = 0
    /\ currentTime = 0
    /\ maxTime = 0
    /\ currentLoc = NoLoc
    /\ spotsAdded = 0
    /\ finalOrderedList = <<>>
    /\ callNo = 1
    /\ firstResult = <<>>

\* Task i resumes with a response that parses: the lodging's coordinate is written
\* if the response has one, and the task is fulfilled with json.candidates.
TaskSucceeds(i) ==
    /\ hotelTasks[i].state = "waiting"
    /\ \E lat \in ResponseCoords, found \in ResponseCandidates :
          /\ hotels' = [hotels EXCEPT ![i] =
                           IF lat # 0 THEN [@ EXCEPT !.latitude = lat, !.longitude = Lng(lat)]
                           ELSE @]
          /\ hotelTasks' = [hotelTasks EXCEPT ![i] = [state |-> "settled", result |-> found]]
    /\ UNCHANGED <<heap, candidates, startDate, totalDays, airportCoords, flightTimes, focus,
                   budget, ranked, pc, dayNum, unvisited, todaysCandidates, activeHotel, currentTime,
                   maxTime, currentLoc, spotsAdded, finalOrderedList, callNo, firstResult, stage,
                   days>>

\* The request or the parse of task i throws: the catch fulfils the task with [].
TaskFails(i) ==
    /\ hotelTasks[i].state = "waiting"
    /\ hotelTasks' = [hotelTasks EXCEPT ![i] = [state |-> "settled", result |-> <<>>]]
    /\ UNCHANGED <<heap, inputs, pc, dayNum, unvisited, todaysCandidates, activeHotel,
                   currentTime, maxTime, currentLoc, spotsAdded, finalOrderedList, callNo,
                   firstResult, stage, days>>

\* generateItinerary resumes after Promise.all: the results are flattened and
\* deduplicated; with no place left it throws.
GatherResults ==
    /\ stage = "stage1"
    /\ AllSettled
    /\ LET allCandidates == deduplicateCandidates(Flat(hotelTasks))
       IN  /\ heap' = allCandidates
           /\ candidates' = [i \in 1..Len(allCandidates) |-> i]
           /\ stage' = IF allCandidates = <<>> THEN "failed" ELSE "stage2"
    /\ UNCHANGED <<hotels, startDate, totalDays, airportCoords, flightTimes, focus, budget, ranked,
                   pc,
                   dayNum, unvisited, todaysCandidates, activeHotel, currentTime, maxTime,
                   currentLoc, spotsAdded, finalOrderedList, callNo, firstResult, hotelTasks,
                   days>>

\* rankCandidates(allCandidates, prefs, prefs.hotels).
RankGathered ==
    /\ stage = "stage2"
    /\ Rank

\* optimizeRoute is called with rankedCandidates.slice(0, 60).
CallOptimizeRoute ==
    /\ stage = "stage2"
    /\ pc = "ranked"
    /\ candidates' = SubSeq(ranked, 1, Min(Len(ranked), TopCandidates))
    /\ stage' = "stage3"
    /\ pc' = "start"
    /\ UNCHANGED <<heap, hotels, startDate, totalDays, airportCoords, flightTimes, focus, budget,
                   ranked, dayNum, unvisited, todaysCandidates, activeHotel, currentTime, maxTime,
                   currentLoc, spotsAdded, finalOrderedList, callNo, firstResult, hotelTasks,
                   days>>

NextGenerate ==
    \/ \E i \in 1..Len(hotelTasks) : TaskSucceeds(i)
    \/ \E i \in 1..Len(hotelTasks) : TaskFails(i)
    \/ GatherResults
    \/ RankGathered
    \/ CallOptimizeRoute

SpecGenerate == InitGenerate /\ [][NextGenerate]_vars

\* ------------------ optimizeRoute on lists gathered with repeated names
\* Places the responses name more than once: the same name at two places with two
\* ratings, and names that differ in case and blanks only.
NamedPlaces ==
    {[Found(nm, k.lat) EXCEPT !.rating = k.rating, !.durationHours = k.durationHours] :
        nm \in {"A", " a", "B"},
        k \in {[lat |-> 25, rating |-> 45, durationHours |-> 8 * Hour],
               [lat |-> 12, rating |-> 30, durationHours |-> 0]}}

\* results.flat() of the responses: the places in any order, names repeated freely.
GatheredLists == SeqsUpTo(NamedPlaces, MaxGathered) \ {<<>>}

\* At the call of optimizeRoute: the gathered list was deduplicated, scored and
\* sorted by score.
InitNames ==
    /\ hotels \in {<<>>, <<Hotel(6, 8, 10)>>, <<Hotel(6, 7, 10), Hotel(7, 9, 0)>>}
    /\ focus = "balanced"
    /\ budget = 20000
    /\ \E gathered \in GatheredLists :
          LET allCandidates == deduplicateCandidates(gathered)
          IN  heap = [i \in 1..Len(allCandidates) |->
                        [allCandidates[i] EXCEPT
                           !.score = Score(allCandidates[i], hotels),
                           !.distanceFromHotel =
                               IF Measurable(allCandidates[i], hotels) # {}
                               THEN MinDistance(allCandidates[i], hotels) ELSE @]]
    /\ ranked = SortByScore([i \in 1..Len(heap) |-> i], [id \in DOMAIN heap |-> heap[id].score])
    /\ candidates = SubSeq(ranked, 1, Min(Len(ranked), TopCandidates))
    /\ startDate = 6
    /\ totalDays \in 1..2
    /\ airportCoords = NoAirport
    /\ flightTimes \in FlightTimes \ {NoFlights}
    /\ InitCall

SpecNames == InitNames /\ [][Next]_vars

\* ------------------------------------------------ sanitizeItineraryDates
\* A day the planning reply can hold: any dayNumber around the trip's range, a date
\* of its own writing, no activity, one or two.
ReplyDays ==
    [dayNumber : 0..(MaxTripDays + 1), date : {0}, activities : {<<>>, <<"x">>, <<"y", "z">>}]

\* data.days of the reply: days missing, repeated, out of range, in any order.
ReplyLists == SeqsUpTo(ReplyDays, MaxReplyDays)

\* The expected date of day i: the start date moved on by i - 1 days.
DateOfDay(i) == startDate + (i - 1)

\* The day injected for a missing day i: one free-time activity.
PlaceholderDay(i) == [dayNumber |-> i, date |-> DateOfDay(i), activities |-> <<"free time">>]

\* Mutant: the day at position i of the reply is taken for day i.
existingDayAtPosition(ds, i) == IF i <= Len(ds) THEN i ELSE 0

\* data.days.find(day => day.dayNumber === i): the index of the first such day, 0 if
\* there is none.
existingDay(ds, i) == FindIndex(ds, {d \in Range(ds) : d.dayNumber = i})

\* The loop of sanitizeItineraryDates: the days pushed for i = 1..n.
RECURSIVE correctedDays(_, _)
correctedDays(ds, n) ==
    IF n <= 0 THEN <<>>
    ELSE Append(correctedDays(ds, n - 1),
                IF existingDay(ds, n) # 0
                THEN [ds[existingDay(ds, n)] EXCEPT !.date = DateOfDay(n)]
                ELSE PlaceholderDay(n))

\* One step of the sort: day x goes behind every day whose dayNumber is not higher.
InsertByDayNumber(t, x) ==
    LET ahead == {i \in 1..Len(t) : t[i].dayNumber <= x.dayNumber}
        k == Cardinality(ahead)
    IN  SubSeq(t, 1, k) \o <<x>> \o SubSeq(t, k + 1, Len(t))

\* correctedDays.sort((a, b) => a.dayNumber - b.dayNumber): ascending and stable.
RECURSIVE SortByDayNumber(_)
SortByDayNumber(ds) ==
    IF ds = <<>> THEN <<>>
    ELSE InsertByDayNumber(SortByDayNumber(SubSeq(ds, 1, Len(ds) - 1)), ds[Len(ds)])

\* At the parse of the planning reply: the route is made, data.days is what the
\* reply holds.
InitSanitize ==
    /\ stage = "stage3"
    /\ days \in ReplyLists
    /\ totalDays \in 1..MaxTripDays
    /\ startDate = 6
    /\ heap = <<>>
    /\ candidates = <<>>
    /\ hotels = <<>>
    /\ airportCoords = NoAirport
    /\ flightTimes = NoFlights
    /\ focus = "balanced"
    /\ budget = 20000
    /\ ranked = <<>>
    /\ pc = "done"
    /\ dayNum = 0
    /\ unvisited = <<>>
    /\ todaysCandidates = <<>>
    /\ activeHotel = 0
    /\ currentTime = 0
    /\ maxTime = 0
    /\ currentLoc = NoLoc
    /\ spotsAdded = 0
    /\ finalOrderedList = <<>>
    /\ callNo = 1
    /\ firstResult = <<>>
    /\ hotelTasks = <<>>

\* data = sanitizeItineraryDates(data, prefs.dates.start, totalDays).
Sanitize ==
    /\ stage = "stage3"
    /\ pc = "done"
    /\ days' = SortByDayNumber(correctedDays(days, totalDays))
    /\ stage' = "sanitized"
    /\ UNCHANGED <<heap, inputs, pc, dayNum, unvisited, todaysCandidates, activeHotel,
                   currentTime, maxTime, currentLoc, spotsAdded, finalOrderedList, callNo,
                   firstResult, hotelTasks>>

NextSanitize == Sanitize

SpecSanitize == InitSanitize /\ [][NextSanitize]_vars

\* ------------------------------------------------------------ claims
\* The returned entries, as the caller reads them.
Out == [i \in 1..Len(finalOrderedList) |-> heap[finalOrderedList[i]]]
Returned == pc = "done"
RealIds == {id \in Range(finalOrderedList) : ~IsPlaceholderId(id)}
PlaceholderIds == {id \in Range(finalOrderedList) : IsPlaceholderId(id)}
\* Days whose iteration is over.
DaysDone == IF pc = "start" THEN {} ELSE 1..(dayNum - 1)

\* C1: with totalDays >= 1 and a non-empty lodging list, the suggestedDay values of
\* the returned entries are exactly 1..totalDays: no day is empty, none is out of range.
C1_DaysCoverTrip ==
    (Returned /\ totalDays >= 1 /\ hotels # <<>>) =>
        {Out[i].suggestedDay : i \in 1..Len(Out)} = 1..totalDays

\* A returned two-day plan with a committed place and a placeholder.
C1_Witness ==
    /\ Returned
    /\ totalDays = 2
    /\ hotels # <<>>
    /\ RealIds # {}
    /\ PlaceholderIds # {}

\* C2: no candidate record is in the output twice, and a committed candidate is
\* out of the unassigned pool from then on.
C2_AssignedOnce ==
    /\ \A i, j \in 1..Len(finalOrderedList) :
          finalOrderedList[i] = finalOrderedList[j] => i = j
    /\ pc # "start" => Range(finalOrderedList) \cap Range(unvisited) = {}

\* A place committed on day 1 that day 2's filter would have admitted again,
\* with day 2 run to its end.
C2_Witness ==
    /\ Returned
    /\ totalDays = 2
    /\ ~IsTransitDay(2)
    /\ \E id \in RealIds :
          /\ heap[id].suggestedDay = 1
          /\ Admits(heap[id], hotels[ActiveHotel(hotels, CurrentDate(2))], 2, unvisited)

\* C3: no place is assigned to a trip day whose weekday (0 = Sunday, the weekday of
\* the start date plus day - 1) is one of its closed days.
C3_NeverOnClosedDay ==
    \A id \in RealIds :
        ((startDate + (heap[id].suggestedDay - 1)) % 7) \notin heap[id].closedDays

\* A place closed on Sundays, passed over on the Sunday of day 1 and assigned to
\* the Monday of day 2.
C3_Witness ==
    /\ Returned
    /\ startDate % 7 = 0
    /\ \E id \in RealIds : heap[id].closedDays = {0} /\ heap[id].suggestedDay = 2

EntriesOfDay(d) == {i \in 1..Len(finalOrderedList) : Out[i].suggestedDay = d}
PlaceholdersOfDay(d) == {i \in EntriesOfDay(d) : IsPlaceholderId(finalOrderedList[i])}
RealsOfDay(d) == {i \in EntriesOfDay(d) : ~IsPlaceholderId(finalOrderedList[i])}

\* C4: a finished day has a placeholder exactly when no place was committed on it,
\* and then one only (category other, rating 0, suggestedDay the day); a day never
\* has both; the only error is the missing lodging, never a starved day.
C4_PlaceholderIffStarved ==
    /\ \A d \in DaysDone :
          /\ Cardinality(PlaceholdersOfDay(d)) = (IF RealsOfDay(d) = {} THEN 1 ELSE 0)
          /\ \A i \in PlaceholdersOfDay(d) : Out[i].category = "other" /\ Out[i].rating = 0
    /\ \A id \in PlaceholderIds : heap[id].suggestedDay \in DaysDone
    /\ pc = "threw" => hotels = <<>>

\* Day 1 has a committed place, day 2 ran its filter, starved and was backfilled.
C4_Witness ==
    /\ Returned
    /\ totalDays = 2
    /\ ~IsTransitDay(2)
    /\ RealsOfDay(1) # {}
    /\ PlaceholdersOfDay(1) = {}
    /\ Cardinality(PlaceholdersOfDay(2)) = 1
    /\ RealsOfDay(2) = {}
    /\ unvisited # <<>>

PositionIn(s, x) == CHOOSE i \in 1..Len(s) : s[i] = x

\* C5: rankCandidates returns a permutation of its input, ordered by non-increasing
\* score, places of equal score in their input order.
C5_RankIsStableSortedPermutation ==
    pc = "ranked" =>
        /\ Len(ranked) = Len(candidates)
        /\ Range(ranked) = Range(candidates)
        /\ \A i, j \in 1..Len(ranked) : i < j =>
              /\ heap[ranked[i]].score >= heap[ranked[j]].score
              /\ heap[ranked[i]].score = heap[ranked[j]].score =>
                    PositionIn(candidates, ranked[i]) < PositionIn(candidates, ranked[j])

\* Three places ranked, two of one score behind a place that came after them.
C5_Witness ==
    /\ pc = "ranked"
    /\ Len(ranked) = 3
    /\ ranked[1] = candidates[3]
    /\ heap[ranked[2]].score = heap[ranked[3]].score
    /\ heap[ranked[1]].score > heap[ranked[2]].score

\* C6: a second call with the same arguments, the records as the first call left
\* them, returns the same entries in the same order with the same suggestedDay and
\* matchReason (and every other field).
C6_SecondCallSameResult ==
    (Returned /\ callNo = 2) => ResultView = firstResult

\* A second call returned, of a two-day trip with committed places on both days.
C6_Witness ==
    /\ Returned
    /\ callNo = 2
    /\ totalDays = 2
    /\ RealsOfDay(1) # {}
    /\ RealsOfDay(2) # {}

InvalidInput == candidates = <<>> \/ totalDays <= 0 \/ hotels = <<>>

\* C7: with an empty candidate list, totalDays <= 0 or an empty lodging list,
\* optimizeRoute fails before any day is processed and never returns a result.
C7_InvalidInputIsFatal ==
    InvalidInput =>
        /\ pc \in {"start", "loop", "threw"}
        /\ pc = "loop" => dayNum = 1
        /\ finalOrderedList = <<>>

\* C8: on a day whose active lodging has no coordinate the geofence rejects nothing:
\* every unassigned place that has a coordinate and is open that day is in the
\* day's pool.
C8_NoCoordinateNoGeofence ==
    [][(BeginDay /\ ~HasCoord(hotels[activeHotel'])) =>
          \A id \in Range(unvisited) :
              (HasCoord(heap[id]) /\ ~IsClosed(heap[id], DayOfWeek(CurrentDate(dayNum))))
                  => id \in Range(todaysCandidates')]_vars

TripDate == startDate + (dayNum - 1)
HasStay(i) == hotels[i].checkIn # 0 /\ hotels[i].checkOut # 0
Contains(i) == HasStay(i) /\ hotels[i].checkIn <= TripDate /\ TripDate < hotels[i].checkOut
Leaves(i) == hotels[i].checkOut = TripDate
Lodgings == 1..Len(hotels)

C9_ResolvedAsSpecified ==
    pc = "resolved" =>
        /\ activeHotel \in Lodgings
        /\ IF \E i \in Lodgings : Contains(i)
           THEN Contains(activeHotel) /\ \A j \in 1..(activeHotel - 1) : ~Contains(j)
           ELSE IF \E i \in Lodgings : Leaves(i)
           THEN Leaves(activeHotel) /\ \A j \in 1..(activeHotel - 1) : ~Leaves(j)
           ELSE activeHotel = Len(hotels)
        /\ \A a, b \in Lodgings :
              (Leaves(a) /\ Contains(b) /\ hotels[b].checkIn = TripDate) =>
                  /\ activeHotel # a
                  /\ Len(hotels) = 2 => activeHotel = b

\* C9: the active lodging of a date is the first lodging whose [checkIn, checkOut)
\* contains it, else the first whose checkOut is the date, else the last of the
\* list; on a hand-off date it is the lodging checked into, not the one left; and
\* resolving leaves the lodging list as it was.
C9_ActiveLodging == []C9_ResolvedAsSpecified /\ [][hotels' = hotels]_vars

\* A hand-off date: the first lodging is left, the second checked into and active.
C9_Witness ==
    /\ pc = "resolved"
    /\ Len(hotels) = 2
    /\ Leaves(1)
    /\ Contains(2)
    /\ hotels[2].checkIn = TripDate
    /\ activeHotel = 2

\* C10: on a date no lodging interval contains, the active lodging is the nearest
\* prior one: its checkOut is the latest that is on or before the date, and its
\* stay does not start after the date.
C10_GapFallsBackToNearestPrior ==
    (/\ pc = "resolved"
     /\ \A i \in Lodgings : HasStay(i) /\ ~Contains(i)
     /\ \E i \in Lodgings : hotels[i].checkOut <= TripDate) =>
        /\ hotels[activeHotel].checkOut <= TripDate
        /\ \A j \in Lodgings :
              hotels[j].checkOut <= TripDate => hotels[j].checkOut <= hotels[activeHotel].checkOut
        /\ hotels[activeHotel].checkIn <= TripDate

\* The cost of one visit of place p made from lodging h: the drive and the stay.
VisitFromLodging(p, h) ==
    KmUnit * calculateDistance(h.latitude, h.longitude, p.latitude, p.longitude)
        + Overhead + Duration(p)

\* Scenario A: one lodging with a coordinate covering both days of a 2-day trip,
\* 3 candidates open every day inside the geofence, each day's window long enough
\* for all three visits.
ScenarioA ==
    /\ Len(hotels) = 1
    /\ HasCoord(hotels[1])
    /\ totalDays = 2
    /\ \A d \in 1..2 : isDateInHotelStay(CurrentDate(d), hotels[1].checkIn, hotels[1].checkOut)
    /\ Len(candidates) = 3
    /\ \A id \in Range(candidates) :
          /\ heap[id].closedDays = {}
          /\ HasCoord(heap[id])
          /\ calculateDistance(hotels[1].latitude, hotels[1].longitude,
                               heap[id].latitude, heap[id].longitude) <= MAX_RADIUS
          /\ \A d \in 1..2 :
                3 * VisitFromLodging(heap[id], hotels[1]) <= DayWindowEnd(d) - DayWindowStart(d)

\* C11: in scenario A every candidate is assigned, no placeholder is emitted and
\* each of the two days has at least one real candidate.
C11_ScenarioAllAssignedBothDays ==
    (Returned /\ ScenarioA) =>
        /\ Range(candidates) \subseteq Range(finalOrderedList)
        /\ PlaceholderIds = {}
        /\ \A d \in 1..2 : RealsOfDay(d) # {}

\* C12: when day 1's end is less than the transit threshold after arrival plus the
\* arrival buffer, day 1 of the output is one transit placeholder and no place,
\* whatever the candidates.
C12_LateArrivalIsTransitDay ==
    (/\ 1 \in DaysDone
     /\ totalDays >= 1
     /\ DayWindowEnd(1) - (arrivalTime + ArrivalBuffer) < TransitThreshold) =>
        /\ RealsOfDay(1) = {}
        /\ Cardinality(PlaceholdersOfDay(1)) = 1
        /\ \A i \in PlaceholdersOfDay(1) : Out[i].matchReason = <<"transit">>

\* Arrival at 22:00 with a lodging and candidates at hand: day 1 is the transit
\* placeholder alone, and a candidate is assigned on day 2.
C12_Witness ==
    /\ Returned
    /\ flightTimes.defined
    /\ flightTimes.start = <<22, 0>>
    /\ hotels # <<>>
    /\ totalDays = 2
    /\ Cardinality(EntriesOfDay(1)) = 1
    /\ RealsOfDay(2) # {}

\* A place farther than the outlier threshold from every lodging and from the airport.
IsOutlier(p) ==
    /\ HasCoord(p)
    /\ \A i \in 1..Len(hotels) :
          /\ HasCoord(hotels[i])
          /\ calculateDistance(hotels[i].latitude, hotels[i].longitude,
                               p.latitude, p.longitude) > WideRadius
    /\ airportCoords.defined =>
          calculateDistance(airportCoords.lat, airportCoords.lng,
                            p.latitude, p.longitude) > WideRadius

\* C13: optimizeRoute does not hard-exclude an outlier: on every day it is open, an
\* unassigned outlier is in the day's pool, where it can be taken as a last resort.
C13_OutlierStaysEligible ==
    [][BeginDay =>
          \A id \in Range(unvisited) :
              (IsOutlier(heap[id]) /\ ~IsClosed(heap[id], DayOfWeek(CurrentDate(dayNum))))
                  => id \in Range(todaysCandidates')]_vars

\* C14: on a trip of at least one day with a lodging, every candidate passed to
\* optimizeRoute is in the returned list and carries an assigned day; none is lost.
C14_NoCandidateLost ==
    (Returned /\ totalDays >= 1 /\ hotels # <<>>) =>
        \A id \in Range(candidates) :
            id \in Range(finalOrderedList) /\ heap[id].suggestedDay \in 1..totalDays

\* The real entries of day d, in output order.
BucketSeq(d) ==
    LET OfDay(id) == ~IsPlaceholderId(id) /\ heap[id].suggestedDay = d
    IN  SelectSeq(finalOrderedList, OfDay)

LocOf(id) == [lat |-> heap[id].latitude, lng |-> heap[id].longitude]

\* Where day d starts from: the airport on day 1 if one is given, else the lodging.
DayAnchor(d) ==
    IF d = 1 /\ airportCoords.defined /\ airportCoords.lat # 0
    THEN [lat |-> airportCoords.lat, lng |-> airportCoords.lng]
    ELSE LET h == hotels[ActiveHotel(hotels, CurrentDate(d))]
         IN  [lat |-> h.latitude, lng |-> h.longitude]

DistFrom(loc, id) == calculateDistance(loc.lat, loc.lng, heap[id].latitude, heap[id].longitude)

C16_DistanceIsToActiveLodging ==
    \A id \in RealIds :
        LET h == hotels[ActiveHotel(hotels, CurrentDate(heap[id].suggestedDay))]
        IN  heap[id].distanceFromHotel =
                calculateDistance(h.latitude, h.longitude, heap[id].latitude, heap[id].longitude)

\* Ranking or routing has started (or generateItinerary has thrown instead).
PastRetrieval == stage # "stage1"

\* C17: ranking and routing start only when every retrieval task has settled, and
\* from then on no task writes a lodging coordinate or contributes candidates.
C17_RankingAfterAllTasksSettled ==
    /\ [](PastRetrieval => AllSettled)
    /\ [][PastRetrieval => (hotels' = hotels /\ hotelTasks' = hotelTasks)]_vars

\* Two tasks, one that failed and one that wrote its lodging's coordinate, and the
\* ranked list handed to optimizeRoute.
C17_Witness ==
    /\ stage = "stage3"
    /\ Len(hotelTasks) = 2
    /\ \E i, j \in 1..2 :
          /\ hotelTasks[i].result = <<>>
          /\ ~HasCoord(hotels[i])
          /\ HasCoord(hotels[j])
          /\ hotelTasks[j].result # <<>>
    /\ ranked # <<>>

\* distance(loc, place) - score / 20, in 1/200 km.
WeightFrom(loc, id) == KmUnit * DistFrom(loc, id) - heap[id].score

\* The place at index k of the day's pool is the one the step considers: it leaves
\* the pool, has the least weight from the current anchor, and every place before
\* it in the pool weighs more.
Considers(k) ==
    /\ todaysCandidates' = RemoveAt(todaysCandidates, k)
    /\ \A j \in 1..Len(todaysCandidates) :
          WeightFrom(currentLoc, todaysCandidates[k]) <= WeightFrom(currentLoc, todaysCandidates[j])
    /\ \A j \in 1..(k - 1) :
          WeightFrom(currentLoc, todaysCandidates[j]) > WeightFrom(currentLoc, todaysCandidates[k])
    /\ finalOrderedList' # finalOrderedList =>
          /\ finalOrderedList' = Append(finalOrderedList, todaysCandidates[k])
          /\ currentLoc' = LocOf(todaysCandidates[k])

\* The day's pool keeps the order of the ranked input.
PoolInInputOrder ==
    \A i, j \in 1..Len(todaysCandidates) :
        i < j => PositionIn(candidates, todaysCandidates[i]) < PositionIn(candidates, todaysCandidates[j])

RECURSIVE ChainTime(_, _)
ChainTime(d, n) ==
    IF n = 0 THEN DayWindowStart(d)
    ELSE LET from == IF n = 1 THEN DayAnchor(d) ELSE LocOf(BucketSeq(d)[n - 1])
             id == BucketSeq(d)[n]
         IN  ChainTime(d, n - 1) + (WeightFrom(from, id) + Overhead)
                 + (IF heap[id].durationHours # 0 THEN heap[id].durationHours ELSE defaultDuration)

\* C19: the clock of every day, after each of its commits, is at most the day's
\* window end plus the 0.5 h flex; the running clock of the day in progress is the
\* window start plus the charged travel times and durations of the day's commits.
C19_ClockWithinWindowPlusFlex ==
    /\ \A d \in 1..totalDays :
          \A n \in 1..Len(BucketSeq(d)) : ChainTime(d, n) <= DayWindowEnd(d) + HalfHour
    /\ pc = "greedy" =>
          /\ currentTime = ChainTime(dayNum, Len(BucketSeq(dayNum)))
          /\ currentTime <= DayWindowEnd(dayNum) + HalfHour

\* A day left with a committed place and, still unassigned, a place of its pool
\* that the clock had no room for.
C19_Witness ==
    /\ pc = "greedy"
    /\ spotsAdded >= 1
    /\ todaysCandidates = <<>>
    /\ \E id \in Range(unvisited) :
          /\ Admits(heap[id], hotels[activeHotel], dayNum, unvisited)
          /\ currentTime < maxTime
          /\ currentTime + WeightFrom(currentLoc, id) + Overhead
                 + Duration(heap[id]) > maxTime + HalfHour

\* C20: the clock advances at a commit by distance / 30 + 0.3 h of travel, the
\* distance being that from the current anchor to the place, plus the visit's
\* duration; the score has no part in it.
C20_TravelTimeFromDistanceAlone ==
    [][finalOrderedList' # finalOrderedList /\ pc = "greedy" /\ pc' = "greedy" =>
          LET id == finalOrderedList'[Len(finalOrderedList')]
          IN  currentTime' - currentTime =
                  KmUnit * DistFrom(currentLoc, id) + Overhead + Duration(heap[id])]_vars

\* C21: a day's window is 09:00 to 20:00, but starts at max(arrival + 2.5 h, 09:00)
\* on day 1 and ends at min(departure - 3.5 h, 20:00) on the last day (both on a
\* one-day trip); a day between the two has 09:00 to 20:00 whatever the flight
\* times; the day is a transit day exactly when the window is under 2 hours.
C21_OperatingWindow ==
    pc \in {"window", "transit"} =>
        /\ currentTime = IF dayNum = 1 THEN Max(arrivalTime + (5 * Hour) \div 2, 9 * Hour)
                         ELSE 9 * Hour
        /\ maxTime = IF dayNum = totalDays THEN Min(departureTime - (7 * Hour) \div 2, 20 * Hour)
                     ELSE 20 * Hour
        /\ (dayNum # 1 /\ dayNum # totalDays) => (currentTime = 9 * Hour /\ maxTime = 20 * Hour)
        /\ pc = "transit" <=> maxTime - currentTime < 2 * Hour

\* A day between the first and the last of a trip whose flight times would cut
\* both ends, with its full window.
C21_Witness ==
    /\ pc = "window"
    /\ totalDays = 3
    /\ dayNum = 2
    /\ flightTimes.defined
    /\ flightTimes.start = <<22, 0>>
    /\ flightTimes.end = <<13, 0>>
    /\ maxTime - currentTime = 11 * Hour

\* The candidates still unassigned when day d starts.
UnassignedAtStartOf(d) ==
    Len(candidates) - Cardinality({id \in RealIds : heap[id].suggestedDay < d})

\* C22: every assigned place is within the geofence of the active lodging of its
\* day, 30 km if 10 or more candidates were unassigned when the day started and
\* 100 km if fewer, or, on day 1, less than 20 km from the airport.
C22_AssignedWithinGeofence ==
    \A id \in RealIds :
        LET d == heap[id].suggestedDay
            h == hotels[ActiveHotel(hotels, CurrentDate(d))]
            radius == IF UnassignedAtStartOf(d) >= SmallPool THEN MAX_RADIUS ELSE WideRadius
        IN  \/ /\ HasCoord(h)
               /\ calculateDistance(h.latitude, h.longitude,
                                    heap[id].latitude, heap[id].longitude) <= radius
            \/ /\ d = 1
               /\ airportCoords.defined
               /\ DistFrom([lat |-> airportCoords.lat, lng |-> airportCoords.lng], id) < AirportRadius

\* Ten candidates, one of them 40 km from the lodging: outside the 30 km of day 1,
\* assigned on day 2 under the widened radius.
C22_Witness ==
    /\ Returned
    /\ Len(candidates) = SmallPool
    /\ Len(hotels) = 1
    /\ RealsOfDay(1) # {}
    /\ \E id \in RealIds :
          /\ heap[id].suggestedDay = 2
          /\ calculateDistance(hotels[1].latitude, hotels[1].longitude,
                               heap[id].latitude, heap[id].longitude) > MAX_RADIUS

\* A step of a day's greedy loop that assigns nothing.
RejectStep == pc = "greedy" /\ pc' = "greedy" /\ finalOrderedList' = finalOrderedList

\* Every candidate not in the output is in the global unassigned pool.
UnassignedInPool ==
    pc \in {"loop", "greedy", "done"} =>
        \A id \in Range(candidates) : id \notin Range(finalOrderedList) => id \in Range(unvisited)

\* C23: a rejection for time takes the place out of the day's pool and changes
\* nothing else: the place stays in the global pool for the later days, the clock,
\* the anchor and the output are as before, and the day's pool never takes a place
\* back.
C23_RejectionLeavesDayPoolOnly ==
    /\ []UnassignedInPool
    /\ [][RejectStep =>
             /\ \E k \in 1..Len(todaysCandidates) :
                   /\ todaysCandidates' = RemoveAt(todaysCandidates, k)
                   /\ todaysCandidates[k] \in Range(unvisited')
             /\ unvisited' = unvisited
             /\ currentTime' = currentTime
             /\ maxTime' = maxTime
             /\ currentLoc' = currentLoc
             /\ heap' = heap]_vars
    /\ [][(pc = "greedy" /\ pc' = "greedy") =>
             Range(todaysCandidates') \subseteq Range(todaysCandidates)]_vars

\* A place admitted to day 1, left out when day 1's loop ended with time to spare
\* (its pool used up, so the place was rejected for time), and assigned on day 2.
C23_Witness ==
    /\ Returned
    /\ totalDays = 2
    /\ hotels # <<>>
    /\ ~IsTransitDay(1)
    /\ ChainTime(1, Len(BucketSeq(1))) < DayWindowEnd(1)
    /\ \E id \in RealIds :
          /\ heap[id].suggestedDay = 2
          /\ Admits(heap[id], hotels[ActiveHotel(hotels, CurrentDate(1))], 1, candidates)

\* C24: optimizeRoute ends (returns, or throws on the missing lodging); the days are
\* taken one after the other, never past totalDays + 1, and every step that stays in
\* a day's greedy loop takes one place out of the day's pool.
C24_Terminates ==
    /\ <>(pc \in {"done", "threw"})
    /\ [](dayNum <= Max(totalDays, 0) + 1)
    /\ [][dayNum' \in {dayNum, dayNum + 1}]_vars
    /\ [][(pc = "greedy" /\ pc' = "greedy") =>
             Len(todaysCandidates') = Len(todaysCandidates) - 1]_vars

\* A returned trip of MaxDays days on which places were committed and rejected.
C24_Witness ==
    /\ Returned
    /\ totalDays = MaxDays
    /\ RealIds # {}
    /\ unvisited # <<>>
    /\ \A d \in 1..totalDays : ~IsTransitDay(d)

\* The run of rankCandidates has scored every place of the list.
Ranked == pc = "ranked" /\ stage = "stage2" /\ Len(ranked) = Len(heap)

\* What the rating contributes to the score of place id, in tenths.
RatingPart(id) == 6 * (IF heap[id].rating # 0 THEN heap[id].rating ELSE 40)

\* What the distance contributes to the score of place id, in tenths.
ProximityPart(id) ==
    IF Measurable(heap[id], hotels) = {} THEN 0 - 500
    ELSE IF heap[id].distanceFromHotel > WideRadius THEN 0 - 2000
    ELSE RoundThird(Max(0, 600 - 20 * heap[id].distanceFromHotel))

\* The interest-match term the score of place id holds (weight 0.4: 4 tenths a point).
InterestTerm(id) == (heap[id].score - RatingPart(id) - ProximityPart(id)) \div 4

Related(f, c) == {f, c} = {"sightseeing", "culture"}

\* C25: the interest-match term of every ranked place is 100 when its category is the
\* focus, 80 when the focus is balanced or focus and category are sightseeing and
\* culture, 70 for any other sightseeing place, and between 30 and 50 otherwise.
C25_InterestMatchTerm ==
    Ranked =>
        \A id \in DOMAIN heap :
            LET c == heap[id].category
                m == InterestTerm(id)
            IN  /\ heap[id].score = RatingPart(id) + 4 * m + ProximityPart(id)
                /\ IF focus = c THEN m = 100
                   ELSE IF focus = "balanced" \/ Related(focus, c) THEN m = 80
                   ELSE IF c = "sightseeing" THEN m = 70
                   ELSE m >= 30 /\ m <= 50

\* The distances from place p to the lodgings that have a coordinate.
LodgingDistances(p) ==
    {calculateDistance(hotels[i].latitude, hotels[i].longitude, p.latitude, p.longitude) :
        i \in Measurable(p, hotels)}

\* The score of place id without its rating and interest-match parts.
ProximityCredit(id) == heap[id].score - RatingPart(id) - 4 * MatchScore(heap[id].category)

\* Places i and j differ in nothing the score reads but the coordinate.
SameButPlace(i, j) ==
    /\ heap[i].category = heap[j].category
    /\ heap[i].rating = heap[j].rating
    /\ heap[i].priceLevel = heap[j].priceLevel

\* C26: the proximity part of a score comes from the distance to the nearest lodging
\* with a coordinate: 20 points at 0 km, falling linearly to 0 at 30 km, 0 up to
\* 100 km, -200 points beyond; it never grows with the distance; a place no distance
\* can be computed for loses 50 points and so scores below the same place at any
\* known distance of at most 100 km.
C26_ProximityFromNearestLodging ==
    Ranked =>
        /\ \A id \in DOMAIN heap :
              LET D == LodgingDistances(heap[id])
                  d == heap[id].distanceFromHotel
                  c == ProximityCredit(id)
              IN  IF D = {} THEN c = 0 - 500
                  ELSE /\ d \in D
                       /\ \A e \in D : d <= e
                       /\ d = 0 => c = 200
                       /\ d <= ComfortRadius =>
                             /\ 3 * c - (600 - 20 * d) <= 1
                             /\ (600 - 20 * d) - 3 * c <= 1
                       /\ (d >= ComfortRadius /\ d <= WideRadius) => c = 0
                       /\ d > WideRadius => c = 0 - 2000
        /\ \A i, j \in DOMAIN heap :
              SameButPlace(i, j) =>
                  /\ (LodgingDistances(heap[i]) # {} /\ LodgingDistances(heap[j]) # {}
                        /\ heap[i].distanceFromHotel <= heap[j].distanceFromHotel)
                       => heap[i].score >= heap[j].score
                  /\ (LodgingDistances(heap[i]) = {} /\ LodgingDistances(heap[j]) # {}
                        /\ heap[j].distanceFromHotel <= WideRadius)
                       => heap[i].score < heap[j].score

\* Two lodgings with coordinates, the second one the nearer to a ranked place, and
\* two places alike but for the coordinate, which one of them lacks.
C26_Witness ==
    /\ Ranked
    /\ Len(hotels) = 2
    /\ \E id \in DOMAIN heap :
          /\ Cardinality(Measurable(heap[id], hotels)) = 2
          /\ calculateDistance(hotels[2].latitude, hotels[2].longitude,
                               heap[id].latitude, heap[id].longitude)
               < calculateDistance(hotels[1].latitude, hotels[1].longitude,
                                   heap[id].latitude, heap[id].longitude)
    /\ \E i, j \in DOMAIN heap :
          /\ SameButPlace(i, j)
          /\ ~HasCoord(heap[i])
          /\ HasCoord(heap[j])

\* The per-day average budget: the trip budget over the trip's days.
AvgBudgetPerDay == budget \div totalDays

\* C27: with a low per-day average budget, a place of priceLevel 1 or 2 scores
\* higher than a place of priceLevel 3 or 4 that is the same in everything else;
\* with a high one the priceLevel makes no difference.
C27_BudgetTerm ==
    Ranked =>
        \A i, j \in DOMAIN heap :
            (/\ heap[i].category = heap[j].category
             /\ heap[i].rating = heap[j].rating
             /\ heap[i].latitude = heap[j].latitude
             /\ heap[i].priceLevel <= 2
             /\ heap[j].priceLevel >= 3)
            => IF AvgBudgetPerDay < LowBudgetPerDay
               THEN heap[i].score > heap[j].score
               ELSE heap[i].score = heap[j].score

\* The output grouped by day as generateItinerary groups it: the buckets of the days
\* 1..d one after the other.
dayBuckets(d) ==
    LET OfDay(id) == heap[id].suggestedDay = d
    IN  SelectSeq(finalOrderedList, OfDay)

RECURSIVE BucketsUpTo(_)
BucketsUpTo(d) == IF d <= 0 THEN <<>> ELSE BucketsUpTo(d - 1) \o dayBuckets(d)

\* C28: the days of the output never decrease along the sequence, and the day
\* buckets read one after the other are the output itself.
C28_OutputOrderedByDay ==
    /\ \A i, j \in 1..Len(finalOrderedList) : i < j => Out[i].suggestedDay <= Out[j].suggestedDay
    /\ Returned => BucketsUpTo(totalDays) = finalOrderedList

\* A returned trip of two days with two places on the first day and a place on the
\* second.
C28_Witness ==
    /\ Returned
    /\ totalDays = 2
    /\ Cardinality(RealsOfDay(1)) >= 2
    /\ RealsOfDay(2) # {}

\* A step of a day's greedy loop that commits a place.
CommitStep ==
    pc = "greedy" /\ pc' = "greedy" /\ Len(finalOrderedList') = Len(finalOrderedList) + 1

\* C29: the commit of a place takes that place, and nothing else, out of the global
\* unassigned pool.
C29_CommitRemovesCommitted ==
    [][CommitStep =>
          LET id == finalOrderedList'[Len(finalOrderedList')]
          IN  /\ id \in Range(unvisited)
              /\ id \notin Range(unvisited')
              /\ Len(unvisited') = Len(unvisited) - 1
              /\ unvisited' = Filter(unvisited, Range(unvisited) \ {id})]_vars

\* The first place committed was not the first of the pool, and places are left in
\* the pool after the commit.
C29_Witness ==
    /\ pc = "greedy"
    /\ Len(finalOrderedList) = 1
    /\ spotsAdded = 1
    /\ finalOrderedList[1] # candidates[1]
    /\ unvisited # <<>>
    /\ Range(unvisited) = Range(candidates) \ {finalOrderedList[1]}

\* The step that sanitizes the days of the planning reply.
SanitizeStep == stage = "stage3" /\ stage' = "sanitized"

\* C30: whatever days the reply held, the sanitized list has totalDays days numbered
\* 1..totalDays in that order; a day the reply held (the first of its number) keeps
\* its activities, a day it did not hold is a placeholder with one activity.
C30_EveryDayOnceInOrder ==
    [][SanitizeStep =>
          /\ Len(days') = totalDays
          /\ \A i \in 1..totalDays :
                /\ days'[i].dayNumber = i
                /\ IF \E k \in 1..Len(days) : days[k].dayNumber = i
                   THEN \E k \in 1..Len(days) :
                           /\ days[k].dayNumber = i
                           /\ \A j \in 1..(k - 1) : days[j].dayNumber # i
                           /\ days'[i].activities = days[k].activities
                   ELSE /\ Len(days'[i].activities) = 1
                        /\ days'[i] = PlaceholderDay(i)]_vars

\* A sanitized trip of three days: the reply held day 3 with two activities and an
\* empty day 1, and did not hold day 2.
C30_Witness ==
    /\ stage = "sanitized"
    /\ totalDays = 3
    /\ Len(days) = 3
    /\ days[1].activities = <<>>
    /\ days[2] = PlaceholderDay(2)
    /\ days[3].activities = <<"y", "z">>
====
